---- MODULE Spec2Model ----
(***************************************************************************)
(* A model of src/app.py, the Streamlit script of the Interactive          *)
(* Multivariable Functions Explorer.  One interaction is one top-to-bottom *)
(* run of the script: read the widgets, sympify the text, pick a topic,    *)
(* build the grid, slice z, lambdify and evaluate, present the topic.      *)
(*                                                                         *)
(* The script's text input is modelled as its token sequence; sympify,     *)
(* subs, diff, lambdify and the numpy evaluation are modelled by what      *)
(* they do on the expression language of FuncInputs.  Floats are modelled  *)
(* as fixed-point numbers (units of 1/Scale) together with NaN, +Inf and   *)
(* -Inf.                                                                   *)
(***************************************************************************)
EXTENDS Integers, Sequences, FiniteSets, TLC

(***************************************************************************)
(* Bounds of the model.                                                    *)
(***************************************************************************)
\* samples per axis of the modelled grid (np.linspace(-5, 5, 60) in the
\* script: the model keeps the end points and the even spacing, and scales
\* the number of samples down)
GridN == 3
\* fixed-point resolution of the modelled floats: one unit is 1/Scale
Scale == 1000
\* longest height field handed to surface_explanation in SpecSurface
MaxField == 3

(***************************************************************************)
(* Program constants.                                                      *)
(***************************************************************************)
GridLo == -5
GridHi == 5
SliderMin == -5
SliderMax == 5
SliderDefault == 0

MaxFloat == 1000 * Scale

(***************************************************************************)
(* Floats: IEEE-754 values as numpy computes with them, in fixed point.    *)
(***************************************************************************)
Fin(v) == [k |-> "fin", v |-> v]
NaN == [k |-> "nan", v |-> 0]
PInf == [k |-> "inf", v |-> 1]
NInf == [k |-> "inf", v |-> -1]

IsNaN(a) == a.k = "nan"
IsInf(a) == a.k = "inf"
IsFin(a) == a.k = "fin"

Abs(n) == IF n < 0 THEN -n ELSE n
Sgn(n) == IF n < 0 THEN -1 ELSE IF n = 0 THEN 0 ELSE 1

\* a finite result, or the infinity it overflows to
Clamp(v) == IF v > MaxFloat THEN PInf ELSE IF v < -MaxFloat THEN NInf ELSE Fin(v)

\* sign of a float that is not NaN: -1, 0, 1
FSign(a) == IF IsInf(a) THEN a.v ELSE Sgn(a.v)

\* a < b and a <= b as numpy compares: any comparison with NaN is False
FLess(a, b) ==
    IF IsNaN(a) \/ IsNaN(b) THEN FALSE
    ELSE IF IsInf(a) THEN a.v = -1 /\ ~(IsInf(b) /\ b.v = -1)
    ELSE IF IsInf(b) THEN b.v = 1
    ELSE a.v < b.v
FLeq(a, b) ==
    IF IsNaN(a) \/ IsNaN(b) THEN FALSE ELSE a = b \/ FLess(a, b)

FNeg(a) ==
    IF IsNaN(a) THEN NaN
    ELSE IF IsInf(a) THEN [k |-> "inf", v |-> -a.v]
    ELSE Fin(-a.v)

FAdd(a, b) ==
    IF IsNaN(a) \/ IsNaN(b) THEN NaN
    ELSE IF IsInf(a) /\ IsInf(b) THEN (IF a.v = b.v THEN a ELSE NaN)
    ELSE IF IsInf(a) THEN a
    ELSE IF IsInf(b) THEN b
    ELSE Clamp(a.v + b.v)

FSub(a, b) == FAdd(a, FNeg(b))

\* |a| * |b| / Scale without leaving the 32-bit range
FixMulAbs(a, b) == (a \div Scale) * b + ((a % Scale) * b) \div Scale

FMul(a, b) ==
    IF IsNaN(a) \/ IsNaN(b) THEN NaN
    ELSE IF IsInf(a) \/ IsInf(b)
         THEN (IF FSign(a) * FSign(b) = 0 THEN NaN
               ELSE [k |-> "inf", v |-> FSign(a) * FSign(b)])
    ELSE Clamp(Sgn(a.v) * Sgn(b.v) * FixMulAbs(Abs(a.v), Abs(b.v)))

\* numpy array division: x/0 is +-Inf (0/0 is NaN) with a warning, no exception
FDiv(a, b) ==
    IF IsNaN(a) \/ IsNaN(b) THEN NaN
    ELSE IF IsInf(a) /\ IsInf(b) THEN NaN
    ELSE IF IsInf(a) THEN [k |-> "inf", v |-> a.v * (IF FSign(b) < 0 THEN -1 ELSE 1)]
    ELSE IF IsInf(b) THEN Fin(0)
    ELSE IF b.v = 0
         THEN (IF a.v = 0 THEN NaN ELSE [k |-> "inf", v |-> Sgn(a.v)])
    ELSE Clamp(Sgn(a.v) * Sgn(b.v) * ((Abs(a.v) * Scale) \div Abs(b.v)))

RECURSIVE IntPow(_, _)
IntPow(a, n) == IF n = 0 THEN Fin(Scale) ELSE FMul(a, IntPow(a, n - 1))

RECURSIVE ISqrtIter(_, _, _)
ISqrtIter(n, lo, hi) ==
    IF lo >= hi THEN lo
    ELSE LET mid == (lo + hi + 1) \div 2
         IN  IF mid * mid <= n THEN ISqrtIter(n, mid, hi) ELSE ISqrtIter(n, lo, mid - 1)

\* numpy.sqrt: NaN below zero
FSqrt(a) ==
    IF IsNaN(a) THEN NaN
    ELSE IF IsInf(a) THEN (IF a.v = 1 THEN PInf ELSE NaN)
    ELSE IF a.v < 0 THEN NaN
    ELSE Fin(ISqrtIter(a.v * Scale, 0, 32 * Scale))

Pi == (355 * Scale) \div 113

\* sin on [0, Pi] (Bhaskara's rational approximation)
SinHalf(r) ==
    LET p == r * (Pi - r)
        den == (5 * Pi * Pi - 4 * p) \div Scale
    IN  (16 * p) \div den

SinFix(v) ==
    LET r == ((v + Pi) % (2 * Pi)) - Pi
    IN  IF r >= 0 THEN SinHalf(r) ELSE -SinHalf(-r)

FSin(a) == IF IsFin(a) THEN Fin(SinFix(a.v)) ELSE NaN
FCos(a) == IF IsFin(a) THEN Fin(SinFix(a.v + Pi \div 2)) ELSE NaN
FTan(a) == FDiv(FSin(a), FCos(a))

Ln2 == (693147 * Scale) \div 1000000

\* ln on [Scale, 2*Scale): 2*atanh((v-1)/(v+1)), three terms
LnUnit(v) ==
    LET t == ((v - Scale) * Scale) \div (v + Scale)
        t3 == (((t * t) \div Scale) * t) \div Scale
        t5 == (((t3 * t) \div Scale) * t) \div Scale
    IN  2 * (t + t3 \div 3 + t5 \div 5)

RECURSIVE LnFix(_)
LnFix(v) ==
    IF v >= 2 * Scale THEN Ln2 + LnFix(v \div 2)
    ELSE IF v < Scale THEN LnFix(2 * v) - Ln2
    ELSE LnUnit(v)

\* numpy.log: NaN below zero, -Inf at zero (warnings, no exception)
FLog(a) ==
    IF IsNaN(a) THEN NaN
    ELSE IF IsInf(a) THEN (IF a.v = 1 THEN PInf ELSE NaN)
    ELSE IF a.v < 0 THEN NaN
    ELSE IF a.v = 0 THEN NInf
    ELSE Fin(LnFix(a.v))

EulerE == (271828 * Scale) \div 100000

\* e^r for 0 <= r < Scale: Taylor polynomial of degree 4
ExpUnit(r) ==
    LET r2 == (r * r) \div Scale
        r3 == (r2 * r) \div Scale
        r4 == (r3 * r) \div Scale
    IN  Scale + r + r2 \div 2 + r3 \div 6 + r4 \div 24

FExp(a) ==
    IF IsNaN(a) THEN NaN
    ELSE IF IsInf(a) THEN (IF a.v = 1 THEN PInf ELSE Fin(0))
    ELSE LET m == Abs(a.v)
             pos == IF m \div Scale > 7 THEN PInf
                    ELSE FMul(IntPow(Fin(EulerE), m \div Scale), Fin(ExpUnit(m % Scale)))
         IN  IF a.v >= 0 THEN pos ELSE FDiv(Fin(Scale), pos)

\* numpy power: an integral exponent multiplies; otherwise exp(b*log(a)),
\* which is NaN for a negative base
FPow(a, b) ==
    IF IsFin(b) /\ b.v % Scale = 0
    THEN (IF b.v >= 0 THEN IntPow(a, b.v \div Scale)
          ELSE FDiv(Fin(Scale), IntPow(a, (-b.v) \div Scale)))
    ELSE FExp(FMul(b, FLog(a)))

(***************************************************************************)
(* Expressions: the sympy trees the script works on.  The constructors     *)
(* apply sympy's automatic evaluation (numbers are combined, x*0 is 0,     *)
(* x+0 is x, x**1 is x, sin(0) is 0, ...), which is what makes an          *)
(* expression constant after z is sliced away.                             *)
(***************************************************************************)
Num(n) == [op |-> "num", v |-> n, name |-> "", args |-> <<>>]
Sym(s) == [op |-> "sym", v |-> 0, name |-> s, args |-> <<>>]
Node(o, as) == [op |-> o, v |-> 0, name |-> "", args |-> as]
Call(fn, a) == [op |-> "call", v |-> 0, name |-> fn, args |-> <<a>>]
\* an applied undefined function, sympy's Function('foo')(x)
Apply(fn, a) == [op |-> "apply", v |-> 0, name |-> fn, args |-> <<a>>]

IsNum(e) == e.op = "num"
IsNumV(e, n) == e.op = "num" /\ e.v = n

\* x, y, z = sp.symbols("x y z")
x == Sym("x")
y == Sym("y")
z == Sym("z")

RECURSIVE NatPow(_, _)
NatPow(b, n) == IF n = 0 THEN 1 ELSE b * NatPow(b, n - 1)

MkAdd(a, b) ==
    IF IsNum(a) /\ IsNum(b) THEN Num(a.v + b.v)
    ELSE IF IsNumV(a, 0) THEN b
    ELSE IF IsNumV(b, 0) THEN a
    ELSE Node("add", <<a, b>>)

MkNeg(a) == IF IsNum(a) THEN Num(-a.v) ELSE Node("neg", <<a>>)

MkMul(a, b) ==
    IF IsNum(a) /\ IsNum(b) THEN Num(a.v * b.v)
    ELSE IF IsNumV(a, 0) \/ IsNumV(b, 0) THEN Num(0)
    ELSE IF IsNumV(a, 1) THEN b
    ELSE IF IsNumV(b, 1) THEN a
    ELSE Node("mul", <<a, b>>)

MkDiv(a, b) ==
    IF IsNumV(b, 1) THEN a
    ELSE IF IsNum(a) /\ IsNum(b) /\ b.v # 0 /\ a.v % b.v = 0 THEN Num(a.v \div b.v)
    ELSE IF IsNumV(a, 0) /\ ~IsNumV(b, 0) THEN Num(0)
    ELSE Node("div", <<a, b>>)

MkPow(a, b) ==
    IF IsNumV(b, 0) THEN Num(1)
    ELSE IF IsNumV(b, 1) THEN a
    ELSE IF IsNum(a) /\ IsNum(b) /\ b.v > 0 THEN Num(NatPow(a.v, b.v))
    ELSE Node("pow", <<a, b>>)

\* Allowed math functions: the locals handed to sympify, name -> sympy function
allowed_funcs ==
    [sin |-> "sp.sin", cos |-> "sp.cos", tan |-> "sp.tan",
     exp |-> "sp.exp", log |-> "sp.log", sqrt |-> "sp.sqrt"]

\* applying an allowed function; sympy evaluates the exact values at once
MkCall(fn, a) ==
    IF fn \in {"sin", "tan", "sqrt"} /\ IsNumV(a, 0) THEN Num(0)
    ELSE IF fn \in {"cos", "exp"} /\ IsNumV(a, 0) THEN Num(1)
    ELSE IF fn = "log" /\ IsNumV(a, 1) THEN Num(0)
    ELSE IF fn = "sqrt" /\ IsNumV(a, 1) THEN Num(1)
    ELSE Call(fn, a)

\* the tree with head o over already evaluated arguments
Rebuild(e, as) ==
    CASE e.op = "add" -> MkAdd(as[1], as[2])
      [] e.op = "mul" -> MkMul(as[1], as[2])
      [] e.op = "div" -> MkDiv(as[1], as[2])
      [] e.op = "pow" -> MkPow(as[1], as[2])
      [] e.op = "neg" -> MkNeg(as[1])
      [] e.op = "call" -> MkCall(e.name, as[1])
      [] e.op = "apply" -> Apply(e.name, as[1])
      [] OTHER -> e

\* a subs that follows only the first argument of every node
RECURSIVE SubsLeftOnly(_, _, _)
SubsLeftOnly(e, s, n) ==
    IF e.op = "sym" THEN (IF e.name = s THEN Num(n) ELSE e)
    ELSE IF e.op = "num" THEN e
    ELSE Rebuild(e, [i \in DOMAIN e.args |->
                       IF i = 1 THEN SubsLeftOnly(e.args[i], s, n) ELSE e.args[i]])

\* f.subs(s, v): every occurrence of the symbol replaced by the number
RECURSIVE Subs(_, _, _)
Subs(e, s, n) ==
    IF e.op = "sym" THEN (IF e.name = s THEN Num(n) ELSE e)
    ELSE IF e.op = "num" THEN e
    ELSE Rebuild(e, [i \in DOMAIN e.args |-> Subs(e.args[i], s, n)])

\* the symbols of an expression (free_symbols)
RECURSIVE FreeSymbols(_)
FreeSymbols(e) ==
    IF e.op = "sym" THEN {e.name}
    ELSE UNION {FreeSymbols(e.args[i]) : i \in DOMAIN e.args}

\* the undefined functions applied in an expression
RECURSIVE UndefinedFunctions(_)
UndefinedFunctions(e) ==
    (IF e.op = "apply" THEN {e.name} ELSE {})
    \cup UNION {UndefinedFunctions(e.args[i]) : i \in DOMAIN e.args}

\* sp.diff(e, s)
RECURSIVE Diff(_, _)
Diff(e, s) ==
    CASE e.op = "num" -> Num(0)
      [] e.op = "sym" -> (IF e.name = s THEN Num(1) ELSE Num(0))
      [] e.op = "add" -> MkAdd(Diff(e.args[1], s), Diff(e.args[2], s))
      [] e.op = "neg" -> MkNeg(Diff(e.args[1], s))
      [] e.op = "mul" ->
           MkAdd(MkMul(Diff(e.args[1], s), e.args[2]),
                 MkMul(e.args[1], Diff(e.args[2], s)))
      [] e.op = "div" ->
           MkDiv(MkAdd(MkMul(Diff(e.args[1], s), e.args[2]),
                       MkNeg(MkMul(e.args[1], Diff(e.args[2], s)))),
                 MkPow(e.args[2], Num(2)))
      [] e.op = "pow" ->
           IF IsNum(e.args[2])
           THEN MkMul(MkMul(e.args[2], MkPow(e.args[1], Num(e.args[2].v - 1))),
                      Diff(e.args[1], s))
           ELSE MkMul(e,
                      MkAdd(MkMul(Diff(e.args[2], s), MkCall("log", e.args[1])),
                            MkDiv(MkMul(e.args[2], Diff(e.args[1], s)), e.args[1])))
      [] e.op = "call" ->
           LET u == e.args[1]
               du == Diff(u, s)
               outer ==
                 CASE e.name = "sin" -> MkCall("cos", u)
                   [] e.name = "cos" -> MkNeg(MkCall("sin", u))
                   [] e.name = "tan" -> MkAdd(MkPow(e, Num(2)), Num(1))
                   [] e.name = "exp" -> e
                   [] e.name = "log" -> MkDiv(Num(1), u)
                   [] e.name = "sqrt" -> MkDiv(Num(1), MkMul(Num(2), e))
           IN  MkMul(outer, du)
      [] e.op = "apply" ->
           IF s \in FreeSymbols(e) THEN Node("derivative", <<e, Sym(s)>>) ELSE Num(0)
      [] OTHER -> Node("derivative", <<e, Sym(s)>>)

(***************************************************************************)
(* sympify: the text, as its tokens, to an expression.  parse_expr         *)
(* evaluates the text as a Python expression in which every name that is   *)
(* no key of allowed_funcs is turned into a Symbol, or into an undefined   *)
(* Function when "(" follows it (auto_symbol), "^" is read as "**"         *)
(* (convert_xor) and integer literals become sympy Integers.  The          *)
(* modelled language applies a function name wherever it uses one.         *)
(***************************************************************************)
NumberValue == [t \in {"0", "1", "2", "5"} |-> CASE t = "0" -> 0 [] t = "1" -> 1
                                                 [] t = "2" -> 2 [] t = "5" -> 5]
Punctuation == {"+", "-", "*", "/", "**", "^", "(", ")"}
IsNumber(t) == t \in DOMAIN NumberValue
IsName(t) == t \notin Punctuation /\ ~IsNumber(t)

Parsed(e, rest) == [ok |-> TRUE, e |-> e, rest |-> rest]
SyntaxError == [ok |-> FALSE, e |-> Num(0), rest |-> <<>>]
StartsWith(t, toks) == t # <<>> /\ Head(t) \in toks

\* The grammar of Python expressions, one rule per case:
\*   expr   := term (("+" | "-") term)*
\*   term   := factor (("*" | "/") factor)*
\*   factor := ("-" | "+") factor | power
\*   power  := atom [("**" | "^") factor]
\*   atom   := NUMBER | NAME | NAME "(" expr ")" | "(" expr ")"
\* `left` is the operand read so far, for the two repetitions.
RECURSIVE ParseRule(_, _, _)
ParseRule(rule, left, t) ==
    CASE rule = "expr" ->
           LET r == ParseRule("term", left, t)
           IN  IF r.ok THEN ParseRule("expr_rest", r.e, r.rest) ELSE SyntaxError
      [] rule = "expr_rest" ->
           IF StartsWith(t, {"+", "-"})
           THEN LET r == ParseRule("term", left, Tail(t))
                IN  IF ~r.ok THEN SyntaxError
                    ELSE ParseRule("expr_rest",
                                   IF Head(t) = "+" THEN MkAdd(left, r.e)
                                   ELSE MkAdd(left, MkNeg(r.e)), r.rest)
           ELSE Parsed(left, t)
      [] rule = "term" ->
           LET r == ParseRule("factor", left, t)
           IN  IF r.ok THEN ParseRule("term_rest", r.e, r.rest) ELSE SyntaxError
      [] rule = "term_rest" ->
           IF StartsWith(t, {"*", "/"})
           THEN LET r == ParseRule("factor", left, Tail(t))
                IN  IF ~r.ok THEN SyntaxError
                    ELSE ParseRule("term_rest",
                                   IF Head(t) = "*" THEN MkMul(left, r.e)
                                   ELSE MkDiv(left, r.e), r.rest)
           ELSE Parsed(left, t)
      [] rule = "factor" ->
           IF StartsWith(t, {"-"})
           THEN LET r == ParseRule("factor", left, Tail(t))
                IN  IF r.ok THEN Parsed(MkNeg(r.e), r.rest) ELSE SyntaxError
           ELSE IF StartsWith(t, {"+"}) THEN ParseRule("factor", left, Tail(t))
           ELSE ParseRule("power", left, t)
      [] rule = "power" ->
           LET r == ParseRule("atom", left, t)
           IN  IF r.ok /\ StartsWith(r.rest, {"**", "^"})
               THEN LET g == ParseRule("factor", left, Tail(r.rest))
                    IN  IF g.ok THEN Parsed(MkPow(r.e, g.e), g.rest) ELSE SyntaxError
               ELSE r
      [] rule = "paren" ->
           \* "(" expr ")" after the "(" has been read
           LET r == ParseRule("expr", left, t)
           IN  IF r.ok /\ StartsWith(r.rest, {")"}) THEN Parsed(r.e, Tail(r.rest))
               ELSE SyntaxError
      [] rule = "atom" ->
           IF t = <<>> THEN SyntaxError
           ELSE LET h == Head(t)
                IN  IF IsNumber(h) THEN Parsed(Num(NumberValue[h]), Tail(t))
                    ELSE IF h = "(" THEN ParseRule("paren", left, Tail(t))
                    ELSE IF IsName(h) /\ StartsWith(Tail(t), {"("})
                         THEN LET r == ParseRule("paren", left, Tail(Tail(t)))
                              IN  IF ~r.ok THEN SyntaxError
                                  ELSE IF h \in DOMAIN allowed_funcs
                                       THEN Parsed(MkCall(h, r.e), r.rest)
                                  ELSE Parsed(Apply(h, r.e), r.rest)
                    ELSE IF IsName(h) /\ h \notin DOMAIN allowed_funcs
                         THEN Parsed(Sym(h), Tail(t))
                    ELSE SyntaxError

ParseExpr(t) == ParseRule("expr", Num(0), t)

\* sp.sympify(func_input, locals=allowed_funcs): the expression, or it raises
sympify(text) ==
    LET r == ParseExpr(text)
    IN  IF r.ok /\ r.rest = <<>> THEN [ok |-> TRUE, e |-> r.e]
        ELSE [ok |-> FALSE, e |-> Num(0)]

(***************************************************************************)
(* numpy: the grid, the generated function and the height field.           *)
(***************************************************************************)
\* np.linspace(lo, hi, n)[k], k = 1..n
linspace(lo, hi, n) ==
    [k \in 1..n |-> Fin(lo * Scale + ((hi - lo) * Scale * (k - 1)) \div (n - 1))]

\* vals = np.linspace(-5, 5, 60)
vals == linspace(GridLo, GridHi, GridN)

\* an array: its shape and its rows; a scalar has the empty shape
Array(rows) == [shape |-> <<Len(rows), Len(rows[1])>>, data |-> rows]
Scalar(v) == [shape |-> <<>>, data |-> <<<<v>>>>]

\* X, Y = np.meshgrid(vals, vals)
meshgrid(xs, ys) ==
    [X |-> Array([i \in DOMAIN ys |-> [j \in DOMAIN xs |-> xs[j]]]),
     Y |-> Array([i \in DOMAIN ys |-> [j \in DOMAIN xs |-> ys[i]]])]

Entries(A) == {A.data[i][j] : i \in DOMAIN A.data, j \in DOMAIN A.data[1]}

\* the value of the generated numpy code at one point
RECURSIVE NumEval(_, _)
NumEval(e, env) ==
    CASE e.op = "num" -> Clamp(e.v * Scale)
      [] e.op = "sym" -> env[e.name]
      [] e.op = "add" -> FAdd(NumEval(e.args[1], env), NumEval(e.args[2], env))
      [] e.op = "neg" -> FNeg(NumEval(e.args[1], env))
      [] e.op = "mul" -> FMul(NumEval(e.args[1], env), NumEval(e.args[2], env))
      [] e.op = "div" -> FDiv(NumEval(e.args[1], env), NumEval(e.args[2], env))
      [] e.op = "pow" -> FPow(NumEval(e.args[1], env), NumEval(e.args[2], env))
      [] e.op = "call" ->
           LET a == NumEval(e.args[1], env)
           IN  CASE e.name = "sin" -> FSin(a)
                 [] e.name = "cos" -> FCos(a)
                 [] e.name = "tan" -> FTan(a)
                 [] e.name = "exp" -> FExp(a)
                 [] e.name = "log" -> FLog(a)
                 [] e.name = "sqrt" -> FSqrt(a)

\* the names the generated function reads that are neither its arguments
\* (x, y) nor numpy's: looking one up raises NameError when it is called
UnboundNames(e) == (FreeSymbols(e) \cup UndefinedFunctions(e)) \ {"x", "y"}

\* f_lamb = sp.lambdify((x, y), f_eval, "numpy"); Z = f_lamb(X, Y):
\* raises (lambdify_raises), or gives an array broadcast over the grid when the expression
\* reads x or y, and the bare scalar when it reads neither
lambdify_raises(e) == UnboundNames(e) # {}
lambdify_call(e, X, Y) ==
    IF lambdify_raises(e) THEN [raised |-> TRUE, Z |-> Scalar(NaN)]
    ELSE IF FreeSymbols(e) = {}
         THEN [raised |-> FALSE, Z |-> Scalar(NumEval(e, [n \in {"x", "y"} |-> NaN]))]
    ELSE [raised |-> FALSE,
          Z |-> Array([i \in DOMAIN X.data |-> [j \in DOMAIN X.data[i] |->
                   NumEval(e, [n \in {"x", "y"} |->
                                 IF n = "x" THEN X.data[i][j] ELSE Y.data[i][j]])]])]

\* np.min in place of np.nanmin: one NaN entry makes the minimum NaN
npmin(A) ==
    LET S == Entries(A)
    IN  IF \E v \in S : IsNaN(v) THEN NaN ELSE CHOOSE m \in S : \A o \in S : FLeq(m, o)

\* np.nanmin / np.nanmax: NaN entries are skipped, infinities are not;
\* an all-NaN array gives NaN (with a warning)
nanmin(A) ==
    LET S == {v \in Entries(A) : ~IsNaN(v)}
    IN  IF S = {} THEN NaN ELSE CHOOSE m \in S : \A o \in S : FLeq(m, o)
nanmax(A) ==
    LET S == {v \in Entries(A) : ~IsNaN(v)}
    IN  IF S = {} THEN NaN ELSE CHOOSE m \in S : \A o \in S : FLeq(o, m)

StatementAbove == "The surface lies above the xy-plane, suggesting a minimum point."
StatementBelow == "The surface lies below the xy-plane, suggesting a maximum point."
StatementSaddle == "The surface has both positive and negative values. This indicates varying curvature or a possible saddle point."

\* surface_explanation with > 0 and < 0 in place of >= 0 and <= 0
surface_explanation_strict(A) ==
    IF FLess(Fin(0), nanmin(A)) THEN StatementAbove
    ELSE IF FLess(nanmax(A), Fin(0)) THEN StatementBelow
    ELSE StatementSaddle

surface_explanation(A) ==
    IF FLeq(Fin(0), nanmin(A)) THEN StatementAbove
    ELSE IF FLeq(nanmax(A), Fin(0)) THEN StatementBelow
    ELSE StatementSaddle

\* go.Surface(x=X, y=Y, z=Z, ...) validates z as an array: a scalar raises
plot_surface_raises(A) == A.shape = <<>>
plot_surface(X, Y, A) == [x |-> X, y |-> Y, z |-> A, colorscale |-> "Viridis"]

(***************************************************************************)
(* The script's widgets and what the user can put into them.               *)
(***************************************************************************)
TwoVariables == "Two variables: f(x, y)"
ThreeVariables == "Three variables: f(x, y, z)"
VarTypes == {TwoVariables, ThreeVariables}
\* var_type.startswith("Three")
IsThree(v) == v = ThreeVariables

TopicVisualization == "Meaning & Visualization"
TopicPartials == "Partial Derivatives"
TopicGradient == "Gradient & Steepest Ascent"
TopicDifferentials == "Differentials"
Topics == {TopicVisualization, TopicPartials, TopicGradient, TopicDifferentials}

\* default_func: "sin(x) + cos(y)" or "x**2 + y**2 + z**2"
default_func(v) ==
    IF IsThree(v) THEN <<"x", "**", "2", "+", "y", "**", "2", "+", "z", "**", "2">>
    ELSE <<"sin", "(", "x", ")", "+", "cos", "(", "y", ")">>

\* the texts the user enters: the two defaults, the spec's scenarios, and
\* texts that are constant, become constant once z is sliced, name an
\* undefined function or variable, or are malformed
FuncInputs ==
    {default_func(TwoVariables), default_func(ThreeVariables),
     <<"x", "**", "2", "+", "y", "**", "2">>,
     <<"-", "x", "^", "2", "-", "y", "**", "2">>,
     <<"log", "(", "x", ")">>,
     <<"1", "/", "x">>,
     <<"5">>,
     <<"x", "*", "y", "*", "z">>,
     <<"foo", "(", "x", ")">>,
     <<"x", "+", "w">>,
     <<"sin", "x">>,
     <<"x", "+">>}

\* st.slider("Fix z value (slice):", -5.0, 5.0, 0.0): the values tried
SliceValues == {SliderMin, SliderDefault, SliderMax}

ErrorInvalid == "error: Invalid function input."
SyntaxRules ==
    <<"rule: Use ** for powers", "rule: Use sin(x), not sin x",
      "rule: Use log(x) for natural logarithm", "rule: Allowed variables: x, y, z",
      "examples of valid inputs">>
ErrorDomain == "error: The function cannot be evaluated on the selected domain. This may happen due to division by zero or invalid values (e.g. log(x) for x <= 0)."
\* st.subheader of each topic's presenter
Subheader ==
    [t \in Topics |->
       CASE t = TopicVisualization -> "subheader: Meaning & Visualization"
         [] t = TopicPartials -> "subheader: Partial Derivatives"
         [] t = TopicGradient -> "subheader: Gradient & Steepest Ascent"
         [] t = TopicDifferentials -> "subheader: Differentials"]
Header == <<"title", "intro", "selectbox: function type", "text_input: function">>

(***************************************************************************)
(* State.                                                                  *)
(***************************************************************************)
VARIABLES
    pc,          \* where the script is: inputs, parse, topic, slice, evaluate,
                 \* present, and how it ended: done, stopped, crashed
    var_type,    \* the function-type selectbox
    func_input,  \* the text input, as tokens
    f,           \* <<>> or <<the sympified expression>>
    topic,       \* "" or the topic selectbox
    grid,        \* <<>> or <<[X, Y]>>
    z0,          \* <<>> or <<the slider's value>>
    f_eval,      \* <<>> or <<the sliced expression>>
    Z,           \* <<>> or <<the height field>>
    fx, fy,      \* <<>> or <<the partial derivative>>
    out,         \* what the page shows, in order
    latex,       \* the formulas shown by st.latex
    charts,      \* the figures shown by st.plotly_chart
    first,       \* <<>> or <<inputs and outcome of the first interaction>>
    afterError,  \* the interaction before this one ended in one of the two errors
    field,       \* SpecSurface: the height field handed to surface_explanation
    statement    \* SpecSurface: "" or what surface_explanation returned

vars == <<pc, var_type, func_input, f, topic, grid, z0, f_eval, Z, fx, fy, out,
          latex, charts, first, afterError, field, statement>>

script == <<pc, var_type, func_input, f, topic, grid, z0, f_eval, Z, fx, fy, out,
            latex, charts>>

\* a fresh run of the script: nothing is defined, nothing is shown
Fresh ==
    /\ pc = "inputs"
    /\ var_type = ""
    /\ func_input = <<>>
    /\ f = <<>>
    /\ topic = ""
    /\ grid = <<>>
    /\ z0 = <<>>
    /\ f_eval = <<>>
    /\ Z = <<>>
    /\ fx = <<>>
    /\ fy = <<>>
    /\ out = <<>>
    /\ latex = <<>>
    /\ charts = <<>>

Init ==
    /\ Fresh
    /\ first = <<>>
    /\ afterError = FALSE
    /\ field = <<>>
    /\ statement = ""

Terminal == pc \in {"done", "stopped", "crashed"}

\* what the user put in, and what the interaction showed
Inputs == [var_type |-> var_type, func_input |-> func_input, topic |-> topic, z0 |-> z0]
Outcome == [pc |-> pc, out |-> out, latex |-> latex, charts |-> charts]

(***************************************************************************)
(* The script, top to bottom.                                              *)
(***************************************************************************)
\* lines 6-29: the page header, the function type and the function text
ReadInputs ==
    /\ pc = "inputs"
    /\ \E v \in VarTypes, text \in FuncInputs :
         /\ var_type' = v
         /\ func_input' = text
    /\ out' = out \o Header
    /\ pc' = "parse"
    /\ UNCHANGED <<f, topic, grid, z0, f_eval, Z, fx, fy, latex, charts, first,
                   afterError, field, statement>>

\* Parse without the st.stop(): the error is shown and the script goes on
\* with a fallback expression
ParseKeepsGoing ==
    /\ pc = "parse"
    /\ LET r == sympify(func_input)
       IN  IF r.ok
           THEN /\ f' = <<r.e>>
                /\ out' = out
           ELSE /\ f' = <<Num(0)>>
                /\ out' = out \o <<ErrorInvalid>> \o SyntaxRules
    /\ pc' = "topic"
    /\ UNCHANGED <<var_type, func_input, topic, grid, z0, f_eval, Z, fx, fy, latex,
                   charts, first, afterError, field, statement>>

\* lines 44-63: sympify; on any exception the error, the rules, st.stop()
Parse ==
    /\ pc = "parse"
    /\ LET r == sympify(func_input)
       IN  IF r.ok
           THEN /\ f' = <<r.e>>
                /\ pc' = "topic"
                /\ out' = out
           ELSE /\ f' = f
                /\ out' = out \o <<ErrorInvalid>> \o SyntaxRules
                /\ pc' = "stopped"
    /\ UNCHANGED <<var_type, func_input, topic, grid, z0, f_eval, Z, fx, fy, latex,
                   charts, first, afterError, field, statement>>

\* lines 68-82: the topic selectbox, then the grid
SelectTopic ==
    /\ pc = "topic"
    /\ \E t \in Topics : topic' = t
    /\ out' = Append(out, "selectbox: topic")
    /\ grid' = <<meshgrid(vals, vals)>>
    /\ pc' = "slice"
    /\ UNCHANGED <<var_type, func_input, f, z0, f_eval, Z, fx, fy, latex, charts,
                   first, afterError, field, statement>>

\* lines 87-91: in three-variable mode the slider and f.subs(z, z0)
Slice ==
    /\ pc = "slice"
    /\ IF IsThree(var_type)
       THEN \E v \in SliceValues :
              /\ z0' = <<v>>
              /\ f_eval' = <<Subs(f[1], "z", v)>>
              /\ out' = Append(out, "slider: z")
       ELSE /\ f_eval' = f
            /\ z0' = z0
            /\ out' = out
    /\ pc' = "evaluate"
    /\ UNCHANGED <<var_type, func_input, f, topic, grid, Z, fx, fy, latex, charts,
                   first, afterError, field, statement>>

\* Evaluate without the st.stop(): the error is shown and the topic is presented
EvaluateKeepsGoing ==
    /\ pc = "evaluate"
    /\ LET r == lambdify_call(f_eval[1], grid[1].X, grid[1].Y)
       IN  /\ Z' = <<r.Z>>
           /\ out' = IF r.raised THEN Append(out, ErrorDomain) ELSE out
    /\ pc' = "present"
    /\ UNCHANGED <<var_type, func_input, f, topic, grid, z0, f_eval, fx, fy, latex,
                   charts, first, afterError, field, statement>>

\* lines 94-102: lambdify and evaluate; on any exception the error, st.stop()
Evaluate ==
    /\ pc = "evaluate"
    /\ LET r == lambdify_call(f_eval[1], grid[1].X, grid[1].Y)
       IN  IF r.raised
           THEN /\ Z' = Z
                /\ out' = Append(out, ErrorDomain)
                /\ pc' = "stopped"
           ELSE /\ Z' = <<r.Z>>
                /\ out' = out
                /\ pc' = "present"
    /\ UNCHANGED <<var_type, func_input, f, topic, grid, z0, f_eval, fx, fy, latex,
                   charts, first, afterError, field, statement>>

\* st.plotly_chart(plot_surface(X, Y, Z)) after `shown` has been written:
\* plot_surface raises on a scalar Z and the script dies there
Chart(shown, after) ==
    IF plot_surface_raises(Z[1])
    THEN /\ out' = out \o shown
         /\ charts' = charts
         /\ pc' = "crashed"
    ELSE /\ out' = out \o shown \o <<"plotly_chart">> \o after
         /\ charts' = Append(charts, plot_surface(grid[1].X, grid[1].Y, Z[1]))
         /\ pc' = "done"

\* lines 136-145
PresentVisualization ==
    /\ pc = "present"
    /\ topic = TopicVisualization
    /\ Chart(<<Subheader[TopicVisualization], "write: the graph represents the surface">>,
             <<surface_explanation(Z[1])>>)
    /\ UNCHANGED <<var_type, func_input, f, topic, grid, z0, f_eval, Z, fx, fy, latex,
                   first, afterError, field, statement>>

\* lines 150-167
PresentPartials ==
    /\ pc = "present"
    /\ topic = TopicPartials
    /\ fx' = <<Diff(f_eval[1], "x")>>
    /\ fy' = <<Diff(f_eval[1], "y")>>
    /\ latex' = latex \o <<[tex |-> "df/dx =", es |-> fx'],
                           [tex |-> "df/dy =", es |-> fy']>>
    /\ Chart(<<Subheader[TopicPartials], "latex", "latex",
               "number_input: x0", "number_input: y0",
               "write: partial derivatives describe how the surface changes">>, <<>>)
    /\ UNCHANGED <<var_type, func_input, f, topic, grid, z0, f_eval, Z, first,
                   afterError, field, statement>>

\* lines 172-185
PresentGradient ==
    /\ pc = "present"
    /\ topic = TopicGradient
    /\ fx' = <<Diff(f_eval[1], "x")>>
    /\ fy' = <<Diff(f_eval[1], "y")>>
    /\ latex' = Append(latex, [tex |-> "grad f =", es |-> fx' \o fy'])
    /\ Chart(<<Subheader[TopicGradient], "latex",
               "write: the gradient vector points in the direction of steepest ascent">>,
             <<>>)
    /\ UNCHANGED <<var_type, func_input, f, topic, grid, z0, f_eval, Z, first,
                   afterError, field, statement>>

\* lines 190-206
PresentDifferentials ==
    /\ pc = "present"
    /\ topic = TopicDifferentials
    /\ fx' = <<Diff(f_eval[1], "x")>>
    /\ fy' = <<Diff(f_eval[1], "y")>>
    /\ latex' = Append(latex, [tex |-> "df = f_x dx + f_y dy", es |-> <<>>])
    /\ Chart(<<Subheader[TopicDifferentials], "number_input: dx", "number_input: dy",
               "latex",
               "write: the differential provides a linear approximation">>, <<>>)
    /\ UNCHANGED <<var_type, func_input, f, topic, grid, z0, f_eval, Z, first,
                   afterError, field, statement>>

\* a rerun that keeps the page of the run before it
RerunKeepsPage ==
    /\ Terminal
    /\ pc' = "inputs"
    /\ var_type' = ""
    /\ func_input' = <<>>
    /\ f' = <<>>
    /\ topic' = ""
    /\ grid' = <<>>
    /\ z0' = <<>>
    /\ f_eval' = <<>>
    /\ Z' = <<>>
    /\ fx' = <<>>
    /\ fy' = <<>>
    /\ first' = IF first = <<>> THEN <<[inputs |-> Inputs, outcome |-> Outcome]>> ELSE first
    /\ afterError' = (pc = "stopped")
    /\ UNCHANGED <<out, latex, charts, field, statement>>

\* the next interaction: Streamlit runs the file again from its first line,
\* in a namespace of its own
Rerun ==
    /\ Terminal
    /\ pc' = "inputs"
    /\ var_type' = ""
    /\ func_input' = <<>>
    /\ f' = <<>>
    /\ topic' = ""
    /\ grid' = <<>>
    /\ z0' = <<>>
    /\ f_eval' = <<>>
    /\ Z' = <<>>
    /\ fx' = <<>>
    /\ fy' = <<>>
    /\ out' = <<>>
    /\ latex' = <<>>
    /\ charts' = <<>>
    /\ first' = IF first = <<>> THEN <<[inputs |-> Inputs, outcome |-> Outcome]>> ELSE first
    /\ afterError' = (pc = "stopped")
    /\ UNCHANGED <<field, statement>>

Next ==
    \/ ReadInputs
    \/ Parse
    \/ SelectTopic
    \/ Slice
    \/ Evaluate
    \/ PresentVisualization
    \/ PresentPartials
    \/ PresentGradient
    \/ PresentDifferentials
    \/ Rerun

Spec == Init /\ [][Next]_vars

(***************************************************************************)
(* surface_explanation on its own: every height field of up to MaxField    *)
(* values out of NaN, -Inf, -1, 0, 1, +Inf.                                *)
(***************************************************************************)
FieldValues == {NaN, NInf, Fin(-Scale), Fin(0), Fin(Scale), PInf}
Fields == UNION {[1..n -> FieldValues] : n \in 1..MaxField}

InitSurface ==
    /\ Fresh
    /\ first = <<>>
    /\ afterError = FALSE
    /\ field \in Fields
    /\ statement = ""

Explain ==
    /\ statement = ""
    /\ field # <<>>
    /\ statement' = surface_explanation(Array(<<field>>))
    /\ UNCHANGED <<script, first, afterError, field>>

NextSurface == Explain

SpecSurface == InitSurface /\ [][NextSurface]_vars

(***************************************************************************)
(* What the claims speak about.                                            *)
(***************************************************************************)
\* the parse stage has run and sympify raised
ParseFailed == pc \notin {"inputs", "parse"} /\ ~sympify(func_input).ok

\* the evaluation stage has run and lambdify or the call raised
EvaluationFailed ==
    /\ pc \in {"present", "done", "stopped", "crashed"}
    /\ f_eval # <<>>
    /\ lambdify_raises(f_eval[1])

\* what the page shows after each of the two errors
ParseErrorPage == Header \o <<ErrorInvalid>> \o SyntaxRules
EvaluationErrorPage ==
    Header \o <<"selectbox: topic">>
           \o (IF IsThree(var_type) THEN <<"slider: z">> ELSE <<>>)
           \o <<ErrorDomain>>

NothingEvaluated == f_eval = <<>> /\ Z = <<>>
NothingPresented == fx = <<>> /\ fy = <<>> /\ latex = <<>> /\ charts = <<>>

IsSubheader(s) == \E t \in Topics : s = Subheader[t]
IsStatement(s) == s \in {StatementAbove, StatementBelow, StatementSaddle}
DerivativeTopics == {TopicPartials, TopicGradient, TopicDifferentials}

\* the allowed vocabulary of names: the variables and the allowed functions
AllowedNames == {"x", "y", "z"} \cup DOMAIN allowed_funcs
UsesOnlyVocabulary(text) ==
    \A i \in DOMAIN text : IsName(text[i]) => text[i] \in AllowedNames

\* C1: a text in the allowed vocabulary with valid syntax parses to an
\* expression without a parse error; a text that names anything outside the
\* vocabulary, or is malformed, ends in the parse error before anything is
\* evaluated or rendered.
C1_ParseContract ==
    pc \notin {"inputs", "parse"} =>
        IF UsesOnlyVocabulary(func_input) /\ sympify(func_input).ok
        THEN f # <<>> /\ ~(\E i \in DOMAIN out : out[i] = ErrorInvalid)
        ELSE pc = "stopped" /\ out = ParseErrorPage /\ NothingEvaluated
             /\ NothingPresented

\* C2: whenever the parse stage fails, the page shows the invalid-input
\* error and the list of syntax rules, and the interaction stops: no topic
\* selector, no slider, no slicing, no evaluation, no derivative, no chart,
\* no surface explanation.
C2_ParseErrorStops ==
    ParseFailed =>
        /\ pc = "stopped"
        /\ out = ParseErrorPage
        /\ \A r \in {"rule: Use ** for powers", "rule: Use sin(x), not sin x",
                     "rule: Use log(x) for natural logarithm",
                     "rule: Allowed variables: x, y, z"} :
             \E i \in DOMAIN out : out[i] = r
        /\ f = <<>>
        /\ topic = ""
        /\ grid = <<>>
        /\ z0 = <<>>
        /\ NothingEvaluated
        /\ NothingPresented

C2_Witness == ParseFailed /\ pc = "stopped" /\ func_input = <<"sin", "x">>

\* C3: whenever lambdify or the evaluation over the grid raises, the page
\* shows the domain-related explanation and the interaction stops: no chart
\* and no output of any topic presenter, whichever topic is selected.
C3_EvaluationErrorStops ==
    EvaluationFailed =>
        /\ pc = "stopped"
        /\ topic \in Topics
        /\ out = EvaluationErrorPage
        /\ Z = <<>>
        /\ NothingPresented

C3_Witness ==
    /\ EvaluationFailed
    /\ pc = "stopped"
    /\ topic = TopicGradient
    /\ IsThree(var_type)

\* C6: in three-variable mode the expression handed on is the parsed one
\* with every z replaced by the slider's value, which lies in [-5, 5]: it
\* holds no z and takes, at every grid point, the value the parsed
\* expression takes there with z at the slice value; in two-variable mode it
\* is the parsed expression itself and there is no slice value.  The
\* slicing step never fails: past it, the sliced expression exists.
PastSlice == topic # "" /\ pc # "slice"
ValueAt(e, a, b, c) ==
    NumEval(e, [n \in {"x", "y", "z"} |->
                  IF n = "x" THEN a ELSE IF n = "y" THEN b ELSE c])
C6_SlicerTotal ==
    PastSlice =>
        /\ f_eval # <<>>
        /\ pc # "crashed" \/ Z # <<>>
        /\ IF IsThree(var_type)
           THEN /\ z0 # <<>>
                /\ z0[1] >= SliderMin /\ z0[1] <= SliderMax
                /\ "z" \notin FreeSymbols(f_eval[1])
                /\ FreeSymbols(f_eval[1]) \subseteq FreeSymbols(f[1])
                /\ "z" \notin FreeSymbols(f[1]) => f_eval = f
                /\ (pc = "evaluate" /\ ~lambdify_raises(f_eval[1])) =>
                     \A a \in Entries(grid[1].X), b \in Entries(grid[1].Y) :
                        ValueAt(f_eval[1], a, b, NaN)
                          = ValueAt(f[1], a, b, Clamp(z0[1] * Scale))
           ELSE f_eval = f /\ z0 = <<>>

C6_Witness ==
    /\ PastSlice
    /\ IsThree(var_type)
    /\ func_input = default_func(ThreeVariables)
    /\ z0 = <<SliderMax>>
    /\ pc = "evaluate"

\* C7: whenever the evaluation completes without raising, the height field
\* has the shape of the grid, also for an expression that reads only one of
\* x, y or neither.
C7_HeightFieldMatchesGrid ==
    Z # <<>> => Z[1].shape = grid[1].X.shape /\ Z[1].shape = <<GridN, GridN>>

\* C8: whenever parsing and evaluation succeed, exactly one presenter runs,
\* the one of the selected topic, and renders the surface exactly once from
\* the X, Y, Z of the evaluation; the surface explanation is shown only
\* under Meaning & Visualization; fx and fy are computed only under the
\* three derivative topics, from the sliced expression.
C8_OnePresenterOneChart ==
    (Terminal /\ Z # <<>>) =>
        /\ Len(SelectSeq(out, IsSubheader)) = 1
        /\ \E i \in DOMAIN out : out[i] = Subheader[topic]
        /\ charts = <<plot_surface(grid[1].X, grid[1].Y, Z[1])>>
        /\ grid[1] = meshgrid(vals, vals)
        /\ Z[1] = lambdify_call(f_eval[1], grid[1].X, grid[1].Y).Z
        /\ (\E i \in DOMAIN out : IsStatement(out[i])) <=> topic = TopicVisualization
        /\ fx # <<>> <=> topic \in DerivativeTopics
        /\ fy # <<>> <=> topic \in DerivativeTopics
        /\ topic \in DerivativeTopics =>
             fx = <<Diff(f_eval[1], "x")>> /\ fy = <<Diff(f_eval[1], "y")>>

ParseErrorOutcome == pc = "stopped" /\ out = ParseErrorPage /\ NothingPresented
EvaluationErrorOutcome == pc = "stopped" /\ out = EvaluationErrorPage /\ NothingPresented
ChartOutcome ==
    /\ pc = "done"
    /\ Len(charts) = 1
    /\ Len(SelectSeq(out, IsSubheader)) = 1
C10_ThreeOutcomes ==
    Terminal =>
        /\ pc # "crashed"
        /\ Cardinality({o \in {"parse", "evaluation", "chart"} :
                          \/ o = "parse" /\ ParseErrorOutcome
                          \/ o = "evaluation" /\ EvaluationErrorOutcome
                          \/ o = "chart" /\ ChartOutcome}) = 1

(***************************************************************************)
(* surface_explanation, under SpecSurface.                                 *)
(***************************************************************************)
Explained == statement # ""
FieldSet == {field[i] : i \in DOMAIN field}
NotNaN(v) == ~IsNaN(v)

\* the statement for a set of values that are compared by their sign
Classify(S) ==
    IF \A v \in S : FSign(v) >= 0 THEN StatementAbove
    ELSE IF \A v \in S : FSign(v) <= 0 THEN StatementBelow
    ELSE StatementSaddle

\* C4: for a height field of finite values, surface_explanation returns
\* exactly one of the three statements: "above ... minimum" when every value
\* is >= 0 (all zeros included), else "below ... maximum" when every value
\* is <= 0, else the saddle statement, and then the field holds a value
\* above zero and a value below zero.
C4_ThreeWayClassification ==
    (Explained /\ \A v \in FieldSet : IsFin(v)) =>
        /\ IsStatement(statement)
        /\ (\A v \in FieldSet : v.v >= 0) => statement = StatementAbove
        /\ (~(\A v \in FieldSet : v.v >= 0) /\ (\A v \in FieldSet : v.v <= 0))
              => statement = StatementBelow
        /\ (~(\A v \in FieldSet : v.v >= 0) /\ ~(\A v \in FieldSet : v.v <= 0))
              => /\ statement = StatementSaddle
                 /\ \E v \in FieldSet : v.v > 0
                 /\ \E v \in FieldSet : v.v < 0

C4_Witness ==
    /\ Explained
    /\ field = <<Fin(0), Fin(0)>>
    /\ statement = StatementAbove

\* C5 as claimed: the statement is the one of the same field with its
\* non-finite entries (NaN, +Inf, -Inf) removed.
C5_IgnoresNonFinite ==
    (Explained /\ \E v \in FieldSet : IsFin(v)) =>
        statement = surface_explanation(Array(<<SelectSeq(field, IsFin)>>))

\* C5 as amended: surface_explanation ignores the NaN entries only.  For a
\* height field with an entry that is not NaN, the statement is the one of
\* the same field with its NaN entries removed, in which +Inf counts as a
\* value above zero and -Inf as a value below zero.
C5_IgnoresNaN ==
    (Explained /\ \E v \in FieldSet : NotNaN(v)) =>
        /\ statement = surface_explanation(Array(<<SelectSeq(field, NotNaN)>>))
        /\ statement = Classify({v \in FieldSet : NotNaN(v)})

C5_Witness ==
    /\ Explained
    /\ field = <<NaN, Fin(Scale), NaN>>
    /\ statement = StatementAbove

====
